---- MODULE Spec2Model ----
(***************************************************************************)
(* Model of the bulk import pipeline of product_importer:                  *)
(*   app/main.py   upload_csv, stream_progress                             *)
(*   app/tasks.py  import_products_task, trigger_webhooks_async            *)
(*   app/models.py Product, Webhook                                        *)
(* A CSV file is a header line followed by one line per data row.  A       *)
(* string that the code transforms (the SKU) is a sequence of characters;  *)
(* the other column values are opaque strings, "" being a missing value.   *)
(***************************************************************************)
EXTENDS Integers, Sequences, FiniteSets, TLC

VARIABLES
    fs,            \* UPLOAD_DIR: file name -> inode number, 0 when no such file
    inode,         \* inode number -> the data rows of the file
    task,          \* task id -> the local state of import_products_task
    status,        \* Celery result backend: task id -> [state, meta]
    products,      \* the products table: stored sku -> column values
    clock,         \* the value NOW() returns in the next transaction
    hook,          \* task id -> the trigger_webhooks_async task it handed off
    webhooks,      \* the webhooks table, in query order
    stream,        \* task id -> the stream_progress response of its poller
    published,     \* history: task id -> the percents of its PROGRESS updates
    uploaded,      \* history: task id -> the rows upload_csv saved for it
    startProducts, \* history: task id -> the products table when it started
    doneProducts   \* history: task id -> the products table when it returned

vars == <<fs, inode, task, status, products, clock, hook, webhooks, stream,
          published, uploaded, startProducts, doneProducts>>

----------------------------------------------------------------------------
(* Bounds *)

\* Stand-in for chunk_size = 10000 (tasks.py:48): rows per batch.
chunk_size == 2

\* Data rows of a file when one job runs.
MaxRows == 5

\* Data rows of a file when two files are imported.
MaxRowsTwo == 3

\* Rows of the webhooks table when the table varies.
MaxWebhooks == 3

TaskIds == {1, 2}

FileNames == {"a.csv"}

----------------------------------------------------------------------------
(* Strings *)

Min(a, b) == IF a < b THEN a ELSE b

UpperChar(c) ==
    CASE c = "a" -> "A"
      [] c = "b" -> "B"
      [] OTHER -> c

\* str.upper()
Upper(s) == [i \in DOMAIN s |-> UpperChar(s[i])]

RECURSIVE LStrip(_)
LStrip(s) == IF s # <<>> /\ Head(s) = " " THEN LStrip(Tail(s)) ELSE s

RECURSIVE RStrip(_)
RStrip(s) ==
    IF s # <<>> /\ s[Len(s)] = " " THEN RStrip(SubSeq(s, 1, Len(s) - 1)) ELSE s

\* str.strip()
Strip(s) == RStrip(LStrip(s))

\* chunk['sku'].astype(str).str.upper()
NormalizeSkuNoStrip(s) == Upper(s)

\* chunk['sku'].astype(str).str.upper().str.strip()
NormalizeSku(s) == Strip(Upper(s))

----------------------------------------------------------------------------
(* Input rows *)

RowPool ==
    { [sku |-> <<"a">>,      name |-> "n1", description |-> "d1", price |-> "1.00"],
      [sku |-> <<" ", "A">>, name |-> "n2", description |-> "",   price |-> ""],
      [sku |-> <<"b">>,      name |-> "n3", description |-> "d3", price |-> "3.00"] }

FilesUpTo(n) == UNION { [1..k -> RowPool] : k \in 0..n }

----------------------------------------------------------------------------
(* Row Normalizer: tasks.py 56-67 *)

\* pd.read_csv: an empty field of name, description or price parses to NaN.
ParseCell(v) == IF v = "" THEN "NaN" ELSE v

ReadRow(r) ==
    [sku |-> r.sku, name |-> ParseCell(r.name),
     description |-> ParseCell(r.description), price |-> ParseCell(r.price)]

\* The rows pd.read_csv(chunksize=chunk_size) yields next from row offset pos.
ReadChunk(rows, pos) ==
    LET last == Min(pos + chunk_size, Len(rows))
    IN  [i \in 1..(IF last > pos THEN last - pos ELSE 0) |-> ReadRow(rows[pos + i])]

\* chunk.fillna('')
FillCell(v) == IF v = "NaN" THEN "" ELSE v

FillNa(chunk) ==
    [i \in DOMAIN chunk |->
        [sku |-> chunk[i].sku, name |-> FillCell(chunk[i].name),
         description |-> FillCell(chunk[i].description),
         price |-> FillCell(chunk[i].price)]]

UpperStripSku(chunk) ==
    [i \in DOMAIN chunk |-> [chunk[i] EXCEPT !.sku = NormalizeSku(chunk[i].sku)]]

\* The rows of chunk at the indices in idx, in order.
RECURSIVE Pick(_, _, _)
Pick(chunk, idx, i) ==
    IF i > Len(chunk) THEN <<>>
    ELSE (IF i \in idx THEN <<chunk[i]>> ELSE <<>>) \o Pick(chunk, idx, i + 1)

\* chunk.drop_duplicates(subset=['sku'], keep='first')
DropDuplicatesKeepFirst(chunk) ==
    Pick(chunk,
         {i \in DOMAIN chunk : \A j \in DOMAIN chunk : j < i => chunk[j].sku # chunk[i].sku},
         1)

\* chunk.drop_duplicates(subset=['sku'], keep='last')
DropDuplicates(chunk) ==
    Pick(chunk,
         {i \in DOMAIN chunk : \A j \in DOMAIN chunk : j > i => chunk[j].sku # chunk[i].sku},
         1)

Normalize(chunk) == DropDuplicates(UpperStripSku(FillNa(chunk)))

----------------------------------------------------------------------------
(* Upsert Executor: tasks.py 71-109 *)

\* chunk_subset.to_csv(...) then cursor.copy_from(..., null=''): an empty
\* field is loaded as NULL.  A NULL sku is the empty sequence.
CopyCell(v) == IF v = "" THEN "NULL" ELSE v

CopyFrom(chunk) ==
    [i \in DOMAIN chunk |->
        [sku |-> chunk[i].sku, name |-> CopyCell(chunk[i].name),
         description |-> CopyCell(chunk[i].description),
         price |-> CopyCell(chunk[i].price)]]

StagedSkus(temp) == {temp[i].sku : i \in DOMAIN temp}

StagedRow(temp, k) == temp[CHOOSE i \in DOMAIN temp : temp[i].sku = k]

\* The error the INSERT ... ON CONFLICT (sku) DO UPDATE statement raises,
\* "" when it raises none: NOT NULL on sku and name (models.py 9-10), one row
\* hit twice by DO UPDATE, the unique index on upper(sku) (models.py 19).
MergeError(table, temp) ==
    IF \E i \in DOMAIN temp : temp[i].sku = <<>> \/ temp[i].name = "NULL"
    THEN "NotNullViolation"
    ELSE IF \E i, j \in DOMAIN temp : i # j /\ temp[i].sku = temp[j].sku
    THEN "CardinalityViolation"
    ELSE IF \E i \in DOMAIN temp :
              \/ \E k \in DOMAIN table :
                    k # temp[i].sku /\ Upper(k) = Upper(temp[i].sku)
              \/ \E j \in DOMAIN temp :
                    temp[j].sku # temp[i].sku /\ Upper(temp[j].sku) = Upper(temp[i].sku)
    THEN "UniqueViolation"
    ELSE ""

InsertedRow(r, now) ==
    [name |-> r.name, description |-> r.description, price |-> r.price,
     is_active |-> TRUE, created_at |-> now, updated_at |-> 0]

\* A DO UPDATE that also sets created_at = NOW().
UpdatedRowResetsCreated(old, r, now) ==
    [old EXCEPT !.name = r.name, !.description = r.description,
                !.price = r.price, !.created_at = now, !.updated_at = now]

\* ON CONFLICT (sku) DO NOTHING
UpdatedRowKeepsOld(old, r, now) == old

\* ON CONFLICT (sku) DO UPDATE SET ..., is_active = TRUE
UpdatedRowActivates(old, r, now) ==
    [old EXCEPT !.name = r.name, !.description = r.description,
                !.price = r.price, !.is_active = TRUE, !.updated_at = now]

\* ON CONFLICT (sku) DO UPDATE SET name, description, price, updated_at

UpdatedRow(old, r, now) ==
    [old EXCEPT !.name = r.name, !.description = r.description,
                !.price = r.price, !.updated_at = now]

\* The products table after the merge statement commits.
Merge(table, temp, now) ==
    [k \in DOMAIN table \cup StagedSkus(temp) |->
        IF k \in StagedSkus(temp)
        THEN IF k \in DOMAIN table
             THEN UpdatedRow(table[k], StagedRow(temp, k), now)
             ELSE InsertedRow(StagedRow(temp, k), now)
        ELSE table[k]]

----------------------------------------------------------------------------
(* Progress Reporter: tasks.py 111-123 *)

\* processed = len(chunk)
NextProcessedReset(processed, n) == n

\* processed += len(chunk)
NextProcessed(processed, n) == processed + n

\* min(round((processed / total_rows) * 100), 100)
PercentRounded(processed, total_rows) ==
    Min((processed * 200 + total_rows) \div (2 * total_rows), 100)

\* min(int((processed / total_rows) * 100), 100), total_rows # 0
Percent(processed, total_rows) == Min((processed * 100) \div total_rows, 100)

ProgressMeta(processed, total_rows) ==
    [current |-> processed, total |-> total_rows,
     percent |-> Percent(processed, total_rows), status |-> "Processing..."]

----------------------------------------------------------------------------
(* State *)

NoTask ==
    [pc |-> "none", file_path |-> "", fh |-> 0, pos |-> 0, chunk_num |-> 0,
     total_rows |-> 0, processed |-> 0, inserted |-> 0, err |-> ""]

NoMeta == [info |-> "none"]

NoHook ==
    [pc |-> "none", event_type |-> "", total_processed |-> 0,
     total_inserted |-> 0, list |-> <<>>, log |-> <<>>]

NoStream == [open |-> TRUE, percent |-> -1]

EmptyTable == [k \in {} |-> 0]

\* The webhooks table of the import runs: one active subscription to the
\* bulk import event and one active subscription to another event.
DefaultWebhooks ==
    << [id |-> 1, event_type |-> "product.bulk_import", is_active |-> TRUE],
       [id |-> 2, event_type |-> "product.created",     is_active |-> TRUE] >>

InitWith(tables) ==
    /\ fs = [f \in FileNames |-> 0]
    /\ inode = [t \in TaskIds |-> <<>>]
    /\ task = [t \in TaskIds |-> NoTask]
    /\ status = [t \in TaskIds |-> [state |-> "PENDING", meta |-> NoMeta]]
    /\ products = EmptyTable
    /\ clock = 1
    /\ hook = [t \in TaskIds |-> NoHook]
    /\ webhooks \in tables
    /\ stream = [t \in TaskIds |-> NoStream]
    /\ published = [t \in TaskIds |-> <<>>]
    /\ uploaded = [t \in TaskIds |-> <<>>]
    /\ startProducts = [t \in TaskIds |-> EmptyTable]
    /\ doneProducts = [t \in TaskIds |-> EmptyTable]

Init == InitWith({DefaultWebhooks})


----------------------------------------------------------------------------
(* upload_csv: main.py 38-67 *)

\* open(file_path, "wb") writes into the inode the name already has, or into
\* a new one; then import_products_task.delay(file_path) queues task t.
Upload(t, name, rows) ==
    /\ task[t].pc = "none"
    /\ \A u \in TaskIds : u < t => task[u].pc # "none"
    /\ LET ino == IF fs[name] # 0 THEN fs[name] ELSE t
       IN  /\ fs' = [fs EXCEPT ![name] = ino]
           /\ inode' = [inode EXCEPT ![ino] = rows]
    /\ task' = [task EXCEPT ![t] = [NoTask EXCEPT !.pc = "queued", !.file_path = name]]
    /\ uploaded' = [uploaded EXCEPT ![t] = rows]
    /\ UNCHANGED <<status, products, clock, hook, webhooks, stream, published,
                   startProducts, doneProducts>>

----------------------------------------------------------------------------
(* import_products_task: tasks.py 30-156 *)

\* The worker marks the task STARTED (task_track_started), then lines 36-56:
\* the existence check, the line count and the opening of the reader.
Start(t) ==
    /\ task[t].pc = "queued"
    /\ status' = [status EXCEPT ![t] = [state |-> "STARTED", meta |-> NoMeta]]
    /\ startProducts' = [startProducts EXCEPT ![t] = products]
    /\ IF fs[task[t].file_path] = 0
       THEN task' = [task EXCEPT ![t].pc = "except", ![t].err = "FileNotFoundError"]
       ELSE task' = [task EXCEPT ![t].pc = "chunk",
                                 ![t].fh = fs[task[t].file_path],
                                 ![t].total_rows = (Len(inode[fs[task[t].file_path]]) + 1) - 1]
    /\ UNCHANGED <<fs, inode, products, clock, hook, webhooks, stream, published,
                   uploaded, doneProducts>>

\* Whether the reader yields another chunk: the first chunk of a file with
\* no data row is an empty frame; after that, only while rows remain.
HasChunk(t) ==
    \/ task[t].chunk_num = 0
    \/ task[t].pos < Len(inode[task[t].fh])

\* One iteration of the loop, lines 56-125, whose transaction commits.
ProcessChunk(t) ==
    /\ task[t].pc = "chunk"
    /\ HasChunk(t)
    /\ LET raw == ReadChunk(inode[task[t].fh], task[t].pos)
           chunk == Normalize(raw)
           temp == CopyFrom(chunk)
           processed == NextProcessed(task[t].processed, Len(chunk))
           advanced == [task[t] EXCEPT !.pos = @ + Len(raw), !.chunk_num = @ + 1,
                                       !.inserted = @ + Len(temp),
                                       !.processed = processed]
       IN  /\ MergeError(products, temp) = ""
           /\ products' = Merge(products, temp, clock)
           /\ clock' = clock + 1
           /\ IF task[t].total_rows = 0
              THEN /\ task' = [task EXCEPT ![t] = [advanced EXCEPT !.pc = "except",
                                                     !.err = "ZeroDivisionError"]]
                   /\ UNCHANGED <<status, published>>
              ELSE /\ task' = [task EXCEPT ![t] = advanced]
                   /\ status' = [status EXCEPT ![t] =
                          [state |-> "PROGRESS",
                           meta |-> ProgressMeta(processed, task[t].total_rows)]]
                   /\ published' = [published EXCEPT ![t] =
                          Append(@, Percent(processed, task[t].total_rows))]
    /\ UNCHANGED <<fs, inode, hook, webhooks, stream, uploaded, startProducts,
                   doneProducts>>

\* A handler inside the loop: it records the failure and goes on with the
\* next chunk.
ChunkFailsAndContinues(t) ==
    /\ task[t].pc = "chunk"
    /\ HasChunk(t)
    /\ LET raw == ReadChunk(inode[task[t].fh], task[t].pos)
           temp == CopyFrom(Normalize(raw))
       IN  \E e \in {MergeError(products, temp), "psycopg2.OperationalError"} :
              /\ e # ""
              /\ task' = [task EXCEPT ![t].pos = @ + Len(raw), ![t].chunk_num = @ + 1,
                                      ![t].err = e]
              /\ status' = [status EXCEPT ![t] =
                     [state |-> "FAILURE",
                      meta |-> [error |-> e, status |-> "Import failed"]]]
    /\ UNCHANGED <<fs, inode, products, clock, hook, webhooks, stream,
                   published, uploaded, startProducts, doneProducts>>

\* A transaction that is not rolled back as a whole: the rows staged before
\* the last one stay in the table when the iteration raises.
ChunkFailsPartial(t) ==
    /\ task[t].pc = "chunk"
    /\ HasChunk(t)
    /\ LET temp == CopyFrom(Normalize(ReadChunk(inode[task[t].fh], task[t].pos)))
           part == SubSeq(temp, 1, Len(temp) - 1)
       IN  \E e \in {MergeError(products, temp), "psycopg2.OperationalError"} :
              /\ e # ""
              /\ task' = [task EXCEPT ![t].pc = "except", ![t].err = e]
              /\ products' = IF MergeError(products, part) = ""
                             THEN Merge(products, part, clock) ELSE products
    /\ UNCHANGED <<fs, inode, status, clock, hook, webhooks, stream,
                   published, uploaded, startProducts, doneProducts>>

\* One iteration whose transaction raises: the statement's own error, or a
\* connectivity failure.  The with-block rolls the transaction back.
ChunkFails(t) ==
    /\ task[t].pc = "chunk"
    /\ HasChunk(t)
    /\ LET temp == CopyFrom(Normalize(ReadChunk(inode[task[t].fh], task[t].pos)))
       IN  \E e \in {MergeError(products, temp), "psycopg2.OperationalError"} :
              /\ e # ""
              /\ task' = [task EXCEPT ![t].pc = "except", ![t].err = e]
    /\ UNCHANGED <<fs, inode, status, products, clock, hook, webhooks, stream,
                   published, uploaded, startProducts, doneProducts>>

\* The reader is exhausted: the loop ends.
EndOfFile(t) ==
    /\ task[t].pc = "chunk"
    /\ ~HasChunk(t)
    /\ task' = [task EXCEPT ![t].pc = "cleanup"]
    /\ UNCHANGED <<fs, inode, status, products, clock, hook, webhooks, stream,
                   published, uploaded, startProducts, doneProducts>>

\* A cleanup without the inner handler: an error of os.remove reaches the
\* outer handler.
CleanupRaises(t) ==
    /\ task[t].pc = "cleanup"
    /\ \/ /\ fs[task[t].file_path] # 0
          /\ fs' = [fs EXCEPT ![task[t].file_path] = 0]
          /\ task' = [task EXCEPT ![t].pc = "notify"]
       \/ /\ task' = [task EXCEPT ![t].pc = "except", ![t].err = "PermissionError"]
          /\ UNCHANGED fs
    /\ UNCHANGED <<inode, status, products, clock, hook, webhooks, stream,
                   published, uploaded, startProducts, doneProducts>>

\* Lines 127-132: os.remove(file_path), any error only logged.
Cleanup(t) ==
    /\ task[t].pc = "cleanup"
    /\ task' = [task EXCEPT ![t].pc = "notify"]
    /\ \/ /\ fs[task[t].file_path] # 0
          /\ fs' = [fs EXCEPT ![task[t].file_path] = 0]
       \/ UNCHANGED fs
    /\ UNCHANGED <<inode, status, products, clock, hook, webhooks, stream,
                   published, uploaded, startProducts, doneProducts>>

\* A dispatch inside the loop as well: the webhook task is queued with the
\* counts so far while batches remain.
NotifyPerBatch(t) ==
    /\ task[t].pc \in {"chunk", "notify"}
    /\ hook[t].pc = "none"
    /\ task' = [task EXCEPT ![t].pc = IF @ = "notify" THEN "return" ELSE @]
    /\ hook' = [hook EXCEPT ![t] =
           [NoHook EXCEPT !.pc = "queued",
                          !.event_type = "product.bulk_import",
                          !.total_processed = task[t].processed,
                          !.total_inserted = task[t].inserted]]
    /\ UNCHANGED <<fs, inode, status, products, clock, webhooks, stream,
                   published, uploaded, startProducts, doneProducts>>

\* Lines 134-138: trigger_webhooks_async.delay(...), which queues the
\* webhook task or raises when the broker cannot be reached.
Notify(t) ==
    /\ task[t].pc = "notify"
    /\ \/ /\ task' = [task EXCEPT ![t].pc = "return"]
          /\ hook' = [hook EXCEPT ![t] =
                 [NoHook EXCEPT !.pc = "queued",
                                !.event_type = "product.bulk_import",
                                !.total_processed = task[t].processed,
                                !.total_inserted = task[t].inserted]]
       \/ /\ task' = [task EXCEPT ![t].pc = "except", ![t].err = "kombu.OperationalError"]
          /\ UNCHANGED hook
    /\ UNCHANGED <<fs, inode, status, products, clock, webhooks, stream,
                   published, uploaded, startProducts, doneProducts>>

SuccessMeta(t) ==
    [status |-> "success", total_processed |-> task[t].processed,
     total_inserted |-> task[t].inserted]

\* Lines 140-148: the task returns and the worker stores SUCCESS.
Return(t) ==
    /\ task[t].pc = "return"
    /\ task' = [task EXCEPT ![t].pc = "done"]
    /\ status' = [status EXCEPT ![t] = [state |-> "SUCCESS", meta |-> SuccessMeta(t)]]
    /\ doneProducts' = [doneProducts EXCEPT ![t] = products]
    /\ UNCHANGED <<fs, inode, products, clock, hook, webhooks, stream, published,
                   uploaded, startProducts>>

FailureMeta(t) == [error |-> task[t].err, status |-> "Import failed"]

\* A handler that publishes the failure and runs the loop again.
ExceptAndRetry(t) ==
    /\ task[t].pc = "except"
    /\ task' = [task EXCEPT ![t].pc = "chunk", ![t].err = ""]
    /\ status' = [status EXCEPT ![t] = [state |-> "FAILURE", meta |-> FailureMeta(t)]]
    /\ UNCHANGED <<fs, inode, products, clock, hook, webhooks, stream, published,
                   uploaded, startProducts, doneProducts>>

\* Lines 150-155: the handler's update_state(state='FAILURE', ...).
Except(t) ==
    /\ task[t].pc = "except"
    /\ task' = [task EXCEPT ![t].pc = "raise"]
    /\ status' = [status EXCEPT ![t] = [state |-> "FAILURE", meta |-> FailureMeta(t)]]
    /\ UNCHANGED <<fs, inode, products, clock, hook, webhooks, stream, published,
                   uploaded, startProducts, doneProducts>>

\* Line 156: the exception leaves the task and the worker stores FAILURE
\* with the exception as the result.
Raise(t) ==
    /\ task[t].pc = "raise"
    /\ task' = [task EXCEPT ![t].pc = "failed"]
    /\ status' = [status EXCEPT ![t] = [state |-> "FAILURE", meta |-> [exc |-> task[t].err]]]
    /\ UNCHANGED <<fs, inode, products, clock, hook, webhooks, stream, published,
                   uploaded, startProducts, doneProducts>>

----------------------------------------------------------------------------
(* stream_progress: main.py 70-118 *)

\* The percent of the event the generator yields for a task in this state,
\* -1 when the event carries none.
EventPercent(st) ==
    CASE st.state = "PENDING"  -> 0
      [] st.state = "PROGRESS" -> st.meta.percent
      [] st.state = "SUCCESS"  -> 100
      [] OTHER -> -1

\* One round of the generator: it reads the task's state, yields the event
\* and ends the stream on SUCCESS or FAILURE.
Poll(t) ==
    /\ task[t].pc # "none"
    /\ stream[t].open
    /\ stream' = [stream EXCEPT ![t] =
           [open |-> status[t].state \notin {"SUCCESS", "FAILURE"},
            percent |-> IF EventPercent(status[t]) = -1
                        THEN stream[t].percent ELSE EventPercent(status[t])]]
    /\ stream' # stream
    /\ UNCHANGED <<fs, inode, task, status, products, clock, hook, webhooks,
                   published, uploaded, startProducts, doneProducts>>

----------------------------------------------------------------------------
(* trigger_webhooks_async: tasks.py 159-184 *)

Outcomes == {"ok", "error_response", "timeout", "connection_error"}

\* client.post raises for these; an error response is returned and logged.
Raises(outcome) == outcome \in {"timeout", "connection_error"}

Matching(event_type) ==
    LET Test(w) == w.event_type = event_type /\ w.is_active
    IN  SelectSeq(webhooks, Test)

\* Lines 163-169: the query, or the outer handler when it raises.
HookLookup(t) ==
    /\ hook[t].pc = "queued"
    /\ \/ hook' = [hook EXCEPT ![t].pc = "deliver",
                               ![t].list = Matching(hook[t].event_type)]
       \/ hook' = [hook EXCEPT ![t].pc = "lookup_failed"]
    /\ UNCHANGED <<fs, inode, task, status, products, clock, webhooks, stream,
                   published, uploaded, startProducts, doneProducts>>

\* A loop in which an exception of client.post leaves the loop.
HookDeliverAborting(t) ==
    /\ hook[t].pc = "deliver"
    /\ Len(hook[t].log) < Len(hook[t].list)
    /\ \E o \in Outcomes :
          hook' = [hook EXCEPT
                     ![t].log = Append(@, [id |-> hook[t].list[Len(hook[t].log) + 1].id,
                                           outcome |-> o]),
                     ![t].pc = IF Raises(o) THEN "done" ELSE @]
    /\ UNCHANGED <<fs, inode, task, status, products, clock, webhooks, stream,
                   published, uploaded, startProducts, doneProducts>>

\* Lines 171-180: one delivery; whatever client.post does, the loop goes on.
HookDeliver(t) ==
    /\ hook[t].pc = "deliver"
    /\ Len(hook[t].log) < Len(hook[t].list)
    /\ \E o \in Outcomes :
          hook' = [hook EXCEPT
                     ![t].log = Append(@, [id |-> hook[t].list[Len(hook[t].log) + 1].id,
                                           outcome |-> o])]
    /\ UNCHANGED <<fs, inode, task, status, products, clock, webhooks, stream,
                   published, uploaded, startProducts, doneProducts>>

\* Line 182: db.close() after the last delivery.
HookClose(t) ==
    /\ hook[t].pc = "deliver"
    /\ Len(hook[t].log) = Len(hook[t].list)
    /\ hook' = [hook EXCEPT ![t].pc = "done"]
    /\ UNCHANGED <<fs, inode, task, status, products, clock, webhooks, stream,
                   published, uploaded, startProducts, doneProducts>>

----------------------------------------------------------------------------
(* Specifications *)

\* One job, with its poller and its webhook task.
Next ==
    \E t \in {1} :
        \/ \E name \in FileNames, rows \in FilesUpTo(MaxRows) : Upload(t, name, rows)
        \/ Start(t)
        \/ ProcessChunk(t)
        \/ ChunkFails(t)
        \/ EndOfFile(t)
        \/ Cleanup(t)
        \/ Notify(t)
        \/ Return(t)
        \/ Except(t)
        \/ Raise(t)
        \/ Poll(t)
        \/ HookLookup(t)
        \/ HookDeliver(t)
        \/ HookClose(t)

Spec == Init /\ [][Next]_vars

Ended(t) == task[t].pc \in {"done", "failed"}

\* Two imports in succession: the second file is uploaded after the first
\* job has ended.
NextTwo ==
    \E t \in TaskIds :
        \/ /\ \A u \in TaskIds : u < t => Ended(u)
           /\ \E name \in FileNames, rows \in FilesUpTo(MaxRowsTwo) : Upload(t, name, rows)
        \/ Start(t)
        \/ ProcessChunk(t)
        \/ ChunkFails(t)
        \/ EndOfFile(t)
        \/ Cleanup(t)
        \/ Notify(t)
        \/ Return(t)
        \/ Except(t)
        \/ Raise(t)

SpecTwo == Init /\ [][NextTwo]_vars

WebhookKinds(i) ==
    { [id |-> i, event_type |-> e, is_active |-> a] :
        e \in {"product.bulk_import", "product.created"}, a \in BOOLEAN }

WebhookTables ==
    { w \in [1..MaxWebhooks -> UNION {WebhookKinds(i) : i \in 1..MaxWebhooks}] :
        \A i \in 1..MaxWebhooks : w[i].id = i }

InitWebhooks == InitWith(WebhookTables)

\* One job over a one-row file, with any webhooks table.
NextWebhooks ==
    \E t \in {1} :
        \/ \E name \in FileNames, rows \in FilesUpTo(1) : Upload(t, name, rows)
        \/ Start(t)
        \/ ProcessChunk(t)
        \/ ChunkFails(t)
        \/ EndOfFile(t)
        \/ Cleanup(t)
        \/ Notify(t)
        \/ Return(t)
        \/ Except(t)
        \/ Raise(t)
        \/ HookLookup(t)
        \/ HookDeliver(t)
        \/ HookClose(t)

SpecWebhooks == InitWebhooks /\ [][NextWebhooks]_vars

----------------------------------------------------------------------------
(* Vocabulary of the properties *)

Terminal == {"SUCCESS", "FAILURE"}

\* The canonical key of a SKU: upper-cased, surrounding whitespace removed.
CanonicalKey(s) == Strip(Upper(s))

\* What a CSV field is in storage: a missing value is NULL.
StoredValue(v) == IF v = "" THEN "NULL" ELSE v

\* The errors the transaction of a batch raises.
StorageErrors ==
    {"NotNullViolation", "CardinalityViolation", "UniqueViolation",
     "psycopg2.OperationalError"}

CeilDiv(n, d) == (n + d - 1) \div d

\* The rows of batch b (1, 2, ...) of a file.
BatchOf(rows, b) == SubSeq(rows, (b - 1) * chunk_size + 1, Min(b * chunk_size, Len(rows)))

BatchKeys(rows, b) == {CanonicalKey(BatchOf(rows, b)[i].sku) : i \in DOMAIN BatchOf(rows, b)}

\* Rows the first n batches retain after the intra-batch duplicates are dropped.
RECURSIVE Retained(_, _)
Retained(rows, n) ==
    IF n = 0 THEN 0 ELSE Retained(rows, n - 1) + Cardinality(BatchKeys(rows, n))

\* The last row of a chunk whose SKU has canonical key k.
LastWithKey(chunk, k) ==
    chunk[CHOOSE i \in DOMAIN chunk :
            /\ CanonicalKey(chunk[i].sku) = k
            /\ \A j \in DOMAIN chunk : j > i => CanonicalKey(chunk[j].sku) # k]

\* The table a job leaves when it merges the batches of rows in file order.
RECURSIVE ImportOf(_, _, _, _)
ImportOf(table, rows, b, now) ==
    IF (b - 1) * chunk_size >= Len(rows) THEN table
    ELSE ImportOf(Merge(table, CopyFrom(Normalize(ReadChunk(rows, (b - 1) * chunk_size))), now),
                  rows, b + 1, now + 1)

\* The rows of its file that task t has next, as the file holds them.
FileChunk(t) ==
    SubSeq(inode[task[t].fh], task[t].pos + 1,
           Min(task[t].pos + chunk_size, Len(inode[task[t].fh])))

\* Task t commits a batch in this step.
Commits(t) == task'[t].chunk_num = task[t].chunk_num + 1 /\ clock' = clock + 1

----------------------------------------------------------------------------
(* C1: for one job id the percent never decreases across successive status
   snapshots, as published by import_products_task after each batch and as
   seen by a poller of the progress stream, and the poller sees exactly 100
   when the job succeeds. *)
C1_PercentMonotone ==
    [][\A t \in TaskIds :
         /\ (status[t].state = "PROGRESS" /\ status'[t].state = "PROGRESS")
               => status'[t].meta.percent >= status[t].meta.percent
         /\ (EventPercent(status[t]) # -1 /\ EventPercent(status'[t]) # -1)
               => EventPercent(status'[t]) >= EventPercent(status[t])
         /\ stream'[t].percent >= stream[t].percent
         /\ (stream'[t] # stream[t] /\ status[t].state = "SUCCESS")
               => stream'[t].percent = 100]_vars

\* The poller saw a job succeed whose last published percent was below 100
\* and above its first.
C1_Witness ==
    /\ status[1].state = "SUCCESS"
    /\ ~stream[1].open
    /\ stream[1].percent = 100
    /\ Len(published[1]) >= 2
    /\ published[1][1] < published[1][Len(published[1])]
    /\ published[1][Len(published[1])] < 100

(* C2: when a storage error occurs in batch k > 1, the batches committed
   before k stay in the products table, the job ends failed, and the failure
   snapshot carries the count of rows processed before the failure. *)
C2_FailurePreservesCount ==
    \A t \in TaskIds :
        (status[t].state = "FAILURE" /\ task[t].chunk_num >= 1
           /\ task[t].err \in StorageErrors)
        => /\ products = ImportOf(EmptyTable, SubSeq(uploaded[t], 1, task[t].pos), 1, 1)
           /\ "current" \in DOMAIN status[t].meta
           /\ status[t].meta.current = task[t].processed

\* The part of C2 the code keeps: the committed batches stay, the job fails.
C2_CommittedBatchesStay ==
    \A t \in TaskIds :
        (task[t].pc \in {"except", "raise", "failed"} /\ task[t].chunk_num >= 1
           /\ task[t].err \in StorageErrors)
        => /\ products = ImportOf(EmptyTable, SubSeq(uploaded[t], 1, task[t].pos), 1, 1)
           /\ (task[t].pc # "except" => status[t].state = "FAILURE")

(* C3: when the job succeeds, the rows processed over all batches plus the
   number of rows dropped as intra-batch duplicates that the job reports
   equals the total row count discovered at job start. *)
ReportedDropped(meta) == IF "dropped" \in DOMAIN meta THEN meta.dropped ELSE 0

C3_RowsAccounted ==
    \A t \in TaskIds :
        status[t].state = "SUCCESS"
        => status[t].meta.total_processed + ReportedDropped(status[t].meta)
              = task[t].total_rows

(* C4: importing the same file twice in succession is idempotent: the second
   run creates no product, the table has the same products after the second
   run as after the first, and only updated_at differs. *)
SameButUpdatedAt(p, q) == [p EXCEPT !.updated_at = 0] = [q EXCEPT !.updated_at = 0]

C4_ReimportIdempotent ==
    \A t1, t2 \in TaskIds :
        (t1 < t2 /\ status[t1].state = "SUCCESS" /\ status[t2].state = "SUCCESS"
           /\ uploaded[t1] = uploaded[t2])
        => /\ startProducts[t2] = doneProducts[t1]
           /\ DOMAIN doneProducts[t2] = DOMAIN doneProducts[t1]
           /\ \A k \in DOMAIN doneProducts[t1] :
                 SameButUpdatedAt(doneProducts[t2][k], doneProducts[t1][k])

\* A file of two batches was imported twice and a product's updated_at moved.
C4_Witness ==
    /\ status[1].state = "SUCCESS"
    /\ status[2].state = "SUCCESS"
    /\ uploaded[1] = uploaded[2]
    /\ Len(uploaded[1]) > chunk_size
    /\ \E k \in DOMAIN doneProducts[1] :
          doneProducts[2][k].updated_at # doneProducts[1][k].updated_at

(* C5: SKU matching in the import is case-insensitive: no two products have
   SKUs that are equal after upper-casing and trimming, and a committed batch
   with a row of canonical key K leaves exactly one product for K, which
   carries the values of the later row also when a product for K existed. *)
ProductsWithKey(table, k) == {s \in DOMAIN table : CanonicalKey(s) = k}

C5_KeysUnique ==
    \A s1, s2 \in DOMAIN products : CanonicalKey(s1) = CanonicalKey(s2) => s1 = s2

C5_CaseInsensitiveSku ==
    /\ []C5_KeysUnique
    /\ [][\A t \in TaskIds :
            Commits(t) =>
              LET raw == FileChunk(t)
              IN  \A i \in DOMAIN raw :
                    LET k == CanonicalKey(raw[i].sku)
                    IN  /\ ProductsWithKey(products', k) = {k}
                        /\ products'[k].name = LastWithKey(raw, k).name
                        /\ ProductsWithKey(products, k) \subseteq {k}]_vars

\* "a" was imported by the first job, " A" by the second: one product, with
\* the second row's name.
C5_Witness ==
    /\ status[1].state = "SUCCESS"
    /\ status[2].state = "SUCCESS"
    /\ \E i \in DOMAIN uploaded[1] : uploaded[1][i].sku = <<"a">>
    /\ uploaded[2] = << [sku |-> <<" ", "A">>, name |-> "n2", description |-> "", price |-> ""] >>
    /\ ProductsWithKey(products, <<"A">>) = {<<"A">>}
    /\ products[<<"A">>].name = "n2"
    /\ products[<<"A">>].updated_at # 0

(* C6: within one batch, if several rows share a canonical key, exactly one
   row with that key reaches storage, with the values of the last such row in
   row order, and the duplicates raise no error. *)
C6_NoErrorForDuplicates ==
    \A t \in TaskIds :
        (task[t].pc = "chunk" /\ HasChunk(t))
        => MergeError(products,
                      CopyFrom(Normalize(ReadChunk(inode[task[t].fh], task[t].pos))))
              # "CardinalityViolation"

C6_LastDuplicateWins ==
    /\ []C6_NoErrorForDuplicates
    /\ [][\A t \in TaskIds :
            Commits(t) =>
              LET raw == FileChunk(t)
                  keys == {CanonicalKey(raw[i].sku) : i \in DOMAIN raw}
              IN  /\ task'[t].inserted - task[t].inserted = Cardinality(keys)
                  /\ \A k \in keys :
                        /\ Cardinality(ProductsWithKey(products', k)) = 1
                        /\ \A s \in ProductsWithKey(products', k) :
                              /\ products'[s].name = StoredValue(LastWithKey(raw, k).name)
                              /\ products'[s].description
                                    = StoredValue(LastWithKey(raw, k).description)
                              /\ products'[s].price = StoredValue(LastWithKey(raw, k).price)]_vars

\* The batch <<"a", " A">> was committed: one row went in, with the second
\* row's values.
C6_Witness ==
    /\ task[1].chunk_num = 1
    /\ task[1].pc = "chunk"
    /\ Len(uploaded[1]) >= 2
    /\ uploaded[1][1].sku = <<"a">>
    /\ uploaded[1][2].sku = <<" ", "A">>
    /\ task[1].inserted = 1
    /\ DOMAIN products = {<<"A">>}
    /\ products[<<"A">>].name = "n2"
    /\ products[<<"A">>].description = "NULL"

(* C7 as stated: a successful job over N data rows publishes exactly
   ceil(N / chunk_size) progress snapshots, and for N = 2.5 * chunk_size
   (25,000 rows at 10,000 a batch) they are at 40, 80 and 100 percent. *)
C7_SnapshotsAsStated ==
    \A t \in TaskIds :
        status[t].state = "SUCCESS"
        => /\ Len(published[t]) = CeilDiv(Len(uploaded[t]), chunk_size)
           /\ (2 * Len(uploaded[t]) = 5 * chunk_size => published[t] = <<40, 80, 100>>)

NoBatchDuplicates(rows) ==
    \A b \in 1..CeilDiv(Len(rows), chunk_size) :
        Cardinality(BatchKeys(rows, b)) = Len(BatchOf(rows, b))

(* C7 as amended: one progress snapshot after each processed batch and none
   besides; a successful job over N >= 1 data rows published exactly
   ceil(N / chunk_size) of them, the k-th at floor(100 * r / N) percent, r
   the rows batches 1..k retain after their duplicates are dropped; for
   N = 2.5 * chunk_size they are 40, 80 and 100 when no batch has a
   duplicate key. *)
C7_SnapshotsPerBatch ==
    \A t \in TaskIds :
        /\ task[t].total_rows > 0 => Len(published[t]) = task[t].chunk_num
        /\ status[t].state = "SUCCESS"
           => LET rows == uploaded[t]
                  n == Len(rows)
              IN  /\ n >= 1
                  /\ Len(published[t]) = CeilDiv(n, chunk_size)
                  /\ \A k \in DOMAIN published[t] :
                        published[t][k] = (100 * Retained(rows, k)) \div n
                  /\ (2 * n = 5 * chunk_size /\ NoBatchDuplicates(rows))
                        => published[t] = <<40, 80, 100>>

\* A job over five rows without a duplicate in any batch succeeded.
C7_Witness ==
    /\ status[1].state = "SUCCESS"
    /\ 2 * Len(uploaded[1]) = 5 * chunk_size
    /\ NoBatchDuplicates(uploaded[1])
    /\ published[1] = <<40, 80, 100>>

(* C8 as stated: for one event trigger_webhooks_async makes exactly one
   delivery attempt to every active subscription of that event type and none
   to the others, whatever the attempts to the other subscriptions do. *)
Attempts(t, id) == Cardinality({i \in DOMAIN hook[t].log : hook[t].log[i].id = id})

Wanted(t, w) == w.event_type = hook[t].event_type /\ w.is_active

C8_OneAttemptAsStated ==
    \A t \in TaskIds :
        hook[t].pc \in {"done", "lookup_failed"}
        => \A i \in DOMAIN webhooks :
              Attempts(t, webhooks[i].id) = IF Wanted(t, webhooks[i]) THEN 1 ELSE 0

(* C8 as amended: no subscription is attempted twice and none that is
   inactive or of another event type is attempted; when the lookup of the
   subscriptions succeeded, the finished task has made exactly one attempt to
   every active subscription of the event type, whatever the other attempts
   did; when the lookup raised, no delivery is attempted. *)
C8_OneAttemptEach ==
    \A t \in TaskIds :
        /\ \A i \in DOMAIN webhooks :
              Attempts(t, webhooks[i].id) <= IF Wanted(t, webhooks[i]) THEN 1 ELSE 0
        /\ hook[t].pc = "done"
           => \A i \in DOMAIN webhooks :
                 Attempts(t, webhooks[i].id) = IF Wanted(t, webhooks[i]) THEN 1 ELSE 0
        /\ hook[t].pc = "lookup_failed" => hook[t].log = <<>>

\* The first subscriber timed out and the second was still delivered to.
C8_Witness ==
    /\ hook[1].pc = "done"
    /\ Len(hook[1].log) >= 2
    /\ hook[1].log[1].outcome = "timeout"
    /\ hook[1].log[2].outcome = "ok"
    /\ \E i \in DOMAIN webhooks : ~Wanted(1, webhooks[i])

(* C9: a job's state only moves pending -> running -> succeeded or failed;
   once it is succeeded or failed the state never changes and no progress
   snapshot is written, and a success snapshot is never written over. *)
Moves ==
    { <<"PENDING", "STARTED">>, <<"STARTED", "PROGRESS">>, <<"PROGRESS", "PROGRESS">>,
      <<"STARTED", "FAILURE">>, <<"PROGRESS", "FAILURE">>, <<"PROGRESS", "SUCCESS">> }

C9_TerminalIsLast ==
    [][\A t \in TaskIds :
         /\ status'[t] # status[t]
               => \/ <<status[t].state, status'[t].state>> \in Moves
                  \/ status[t].state = "FAILURE" /\ status'[t].state = "FAILURE"
         /\ status[t].state \in Terminal
               => status'[t].state = status[t].state /\ published'[t] = published[t]
         /\ status[t].state = "SUCCESS" => status'[t] = status[t]]_vars

\* A job failed after it had published progress, and the worker stored the
\* failure over the handler's.
C9_Witness ==
    /\ task[1].pc = "failed"
    /\ status[1].state = "FAILURE"
    /\ "exc" \in DOMAIN status[1].meta
    /\ Len(published[1]) >= 2

(* C10: no error raised while triggering or delivering notifications changes
   a job's terminal state: a job whose batches were all committed ends
   succeeded. *)
AllCommitted(t) == Len(uploaded[t]) > 0 /\ task[t].pos = Len(uploaded[t])

C10_NotificationNeverFailsJob ==
    \A t \in TaskIds :
        (AllCommitted(t) /\ status[t].state \in Terminal) => status[t].state = "SUCCESS"

(* C11: whenever a job's terminal state is failed, its source file is still
   present in the upload directory: the file is removed only on the path
   that ends in succeeded. *)
C11_FailedKeepsFile ==
    \A t \in TaskIds :
        status[t].state = "FAILURE" => fs[task[t].file_path] # 0

----------------------------------------------------------------------------
(* Two jobs at once *)

\* Data rows of a file when two jobs run concurrently.
MaxRowsConcurrent == 2

\* Two uploads of files of the same name and their jobs, in any interleaving.
NextConcurrent ==
    \E t \in TaskIds :
        \/ \E name \in FileNames, rows \in FilesUpTo(MaxRowsConcurrent) :
              Upload(t, name, rows)
        \/ Start(t)
        \/ ProcessChunk(t)
        \/ ChunkFails(t)
        \/ EndOfFile(t)
        \/ Cleanup(t)
        \/ Notify(t)
        \/ Return(t)
        \/ Except(t)
        \/ Raise(t)

SpecConcurrent == Init /\ [][NextConcurrent]_vars

(* C12: concurrently running import jobs share no mutable state other than
   the products table and the status channel: the rows a job reads are the
   rows of the file uploaded for it, and no job fails because its file is
   gone, whatever the other job's upload and cleanup do. *)
C12_JobsShareNoFiles ==
    \A t \in TaskIds :
        /\ task[t].err # "FileNotFoundError"
        /\ task[t].fh # 0 => inode[task[t].fh] = uploaded[t]

(* C13: each batch is merged atomically: the products table always holds the
   effects of a whole number of batches of the job; a step that changes the
   table is the commit of one whole batch, and a batch that fails leaves the
   table, with the rows of the batches committed before it, as it was. *)
C13_WholeBatchesOnly ==
    \A t \in TaskIds :
        task[t].pc # "none"
        => /\ task[t].pos = Min(task[t].chunk_num * chunk_size, Len(uploaded[t]))
           /\ products = ImportOf(EmptyTable, SubSeq(uploaded[t], 1, task[t].pos), 1, 1)

C13_BatchAtomic ==
    /\ []C13_WholeBatchesOnly
    /\ [][/\ products' # products => \E t \in TaskIds : Commits(t)
          /\ \A t \in TaskIds :
                (task[t].pc = "chunk" /\ task'[t].pc = "except"
                   /\ task'[t].err \in StorageErrors)
                => products' = products]_vars

\* The second batch of a job failed; the rows of the first are in the table
\* and none of the second.
C13_Witness ==
    /\ task[1].pc = "failed"
    /\ task[1].err \in StorageErrors
    /\ task[1].chunk_num = 1
    /\ Len(uploaded[1]) > chunk_size
    /\ uploaded[1][1].sku = <<"a">>
    /\ uploaded[1][2].sku = <<" ", "A">>
    /\ uploaded[1][3].sku = <<"b">>
    /\ DOMAIN products = {<<"A">>}

----------------------------------------------------------------------------
(* create_product: main.py 146-153, crud.py 60-65 *)

\* Data rows of a file when products are also created by hand.
MaxRowsManual == 3

\* SKUs given to create_product: one in lower case, one in canonical form.
ManualSkus == {<<"a">>, <<"B">>}

\* POST /api/products: refused when get_product_by_sku finds a product whose
\* upper-cased SKU is the same; otherwise the product is stored with the SKU
\* as given.
CreateProduct(sku, is_active) ==
    /\ ~\E k \in DOMAIN products : Upper(k) = Upper(sku)
    /\ products' = [k \in DOMAIN products \cup {sku} |->
                       IF k = sku
                       THEN [name |-> "m", description |-> "NULL", price |-> "NULL",
                             is_active |-> is_active, created_at |-> clock,
                             updated_at |-> 0]
                       ELSE products[k]]
    /\ clock' = clock + 1
    /\ UNCHANGED <<fs, inode, task, status, hook, webhooks, stream, published,
                   uploaded, startProducts, doneProducts>>

\* One import job, and products created by hand before or during it.
NextManual ==
    \/ \E sku \in ManualSkus, is_active \in BOOLEAN : CreateProduct(sku, is_active)
    \/ \E t \in {1} :
          \/ \E name \in FileNames, rows \in FilesUpTo(MaxRowsManual) :
                Upload(t, name, rows)
          \/ Start(t)
          \/ ProcessChunk(t)
          \/ ChunkFails(t)
          \/ EndOfFile(t)
          \/ Cleanup(t)
          \/ Notify(t)
          \/ Return(t)
          \/ Except(t)
          \/ Raise(t)

SpecManual == Init /\ [][NextManual]_vars

(* C14: for a product stored with its SKU in non-canonical form, as
   create_product stores it, importing a row with the same canonical key
   updates that product: the import does not fail on the key and no second
   product for the key appears. *)
C14_ImportUpdatesManualProduct ==
    /\ \A t \in TaskIds : task[t].err # "UniqueViolation"
    /\ \A s1, s2 \in DOMAIN products :
          CanonicalKey(s1) = CanonicalKey(s2) => s1 = s2

(* C15: a job that ends failed has also invoked trigger_webhooks_async, once,
   for that terminal state. *)
C15_FailureNotifies ==
    \A t \in TaskIds : task[t].pc = "failed" => hook[t].pc # "none"

(* C16: a job that succeeds has dispatched trigger_webhooks_async exactly
   once, after its last batch was committed, with event type
   'product.bulk_import' and the processed and inserted-or-updated counts of
   its success result; nothing is dispatched while batches remain. *)
C16_DispatchAsResult ==
    \A t \in TaskIds :
        /\ hook[t].pc # "none"
           => /\ task[t].pc \in {"return", "done"}
              /\ ~HasChunk(t)
              /\ task[t].pos = Len(uploaded[t])
              /\ task[t].chunk_num = CeilDiv(Len(uploaded[t]), chunk_size)
              /\ hook[t].event_type = "product.bulk_import"
              /\ hook[t].total_processed = task[t].processed
              /\ hook[t].total_inserted = task[t].inserted
        /\ status[t].state = "SUCCESS"
           => /\ hook[t].pc # "none"
              /\ hook[t].total_processed = status[t].meta.total_processed
              /\ hook[t].total_inserted = status[t].meta.total_inserted

C16_DispatchOnceAfterLastBatch ==
    /\ []C16_DispatchAsResult
    /\ [][\A t \in TaskIds :
            /\ (hook[t].pc # "queued" /\ hook'[t].pc = "queued")
                  => hook[t].pc = "none" /\ task[t].pc = "notify"
            /\ hook[t].pc # "none"
                  => /\ hook'[t].pc # "none"
                     /\ hook'[t].event_type = hook[t].event_type
                     /\ hook'[t].total_processed = hook[t].total_processed
                     /\ hook'[t].total_inserted = hook[t].total_inserted]_vars

\* A job over three batches, one of them with a duplicate key, succeeded and
\* its webhook task ran with the counts of the result.
C16_Witness ==
    /\ status[1].state = "SUCCESS"
    /\ task[1].chunk_num = 3
    /\ hook[1].pc = "done"
    /\ hook[1].total_processed = status[1].meta.total_processed
    /\ hook[1].total_processed < Len(uploaded[1])
    /\ hook[1].total_inserted = status[1].meta.total_inserted

(* C17: every published progress snapshot has percent = floor(processed /
   total * 100) clamped to [0, 100]; when the total discovered at start is 0,
   publishing progress yields percent 0 and does not raise or fail the job. *)
C17_PercentDefinedForZeroTotal ==
    \A t \in TaskIds :
        /\ status[t].state = "PROGRESS"
           => status[t].meta.percent
                 = IF status[t].meta.total = 0 THEN 0
                   ELSE Min((status[t].meta.current * 100) \div status[t].meta.total, 100)
        /\ (task[t].total_rows = 0 /\ task[t].chunk_num >= 1)
           => /\ task[t].err = ""
              /\ status[t].state \in {"PROGRESS", "SUCCESS"}

(* C18: the batches of one job are merged strictly in file order, so after a
   successful import with no concurrent writer, for every canonical key of
   the file the stored name, description and price are those of the last row
   in file order with that key, also when its rows fall in different
   batches. *)
C18_LastRowStored ==
    \A t \in TaskIds :
        status[t].state = "SUCCESS"
        => \A i \in DOMAIN uploaded[t] :
              LET k == CanonicalKey(uploaded[t][i].sku)
                  last == LastWithKey(uploaded[t], k)
              IN  /\ k \in DOMAIN products
                  /\ products[k].name = StoredValue(last.name)
                  /\ products[k].description = StoredValue(last.description)
                  /\ products[k].price = StoredValue(last.price)

C18_FileOrder ==
    /\ []C18_LastRowStored
    /\ [][\A t \in TaskIds :
            Commits(t) => FileChunk(t) = BatchOf(uploaded[t], task[t].chunk_num + 1)]_vars

\* "a" is in the first batch and " A" in the second: the product has the
\* values of the second and was created by the first.
C18_Witness ==
    /\ status[1].state = "SUCCESS"
    /\ Len(uploaded[1]) = chunk_size + 1
    /\ uploaded[1][1].sku = <<"a">>
    /\ uploaded[1][chunk_size + 1].sku = <<" ", "A">>
    /\ products[<<"A">>].name = "n2"
    /\ products[<<"A">>].description = "NULL"
    /\ products[<<"A">>].created_at = 1
    /\ products[<<"A">>].updated_at = 2

(* C19: a merge changes only name, description, price and updated_at of
   products whose canonical key is in the batch: it never changes created_at
   or is_active of an existing product, never deletes a product, leaves every
   product whose key is not in the batch unchanged, and inserts a product
   with is_active = TRUE for each new key. *)
C19_MergeFrame ==
    [][\A t \in TaskIds :
         Commits(t) =>
           LET raw == FileChunk(t)
               keys == {CanonicalKey(raw[i].sku) : i \in DOMAIN raw}
           IN  /\ DOMAIN products' = DOMAIN products \cup keys
               /\ \A s \in DOMAIN products :
                     IF CanonicalKey(s) \in keys
                     THEN /\ products'[s].created_at = products[s].created_at
                          /\ products'[s].is_active = products[s].is_active
                     ELSE products'[s] = products[s]
               /\ \A s \in DOMAIN products' \ DOMAIN products :
                     /\ products'[s].is_active
                     /\ products'[s].created_at = clock]_vars

\* A product made inactive by hand was updated by the import and is still
\* inactive, next to a product the import inserted.
C19_Witness ==
    /\ status[1].state = "SUCCESS"
    /\ DOMAIN products = {<<"A">>, <<"B">>}
    /\ products[<<"B">>].name = "n3"
    /\ ~products[<<"B">>].is_active
    /\ products[<<"B">>].created_at < products[<<"B">>].updated_at
    /\ products[<<"A">>].is_active
    /\ products[<<"A">>].updated_at = 0

(* C20: a missing value of name, description or price in a source row
   reaches storage as the empty string, not as NULL. *)
C20_MissingStoredAsEmpty ==
    \A k \in DOMAIN products :
        /\ products[k].name # "NULL"
        /\ products[k].description # "NULL"
        /\ products[k].price # "NULL"

(* C21: a failure to remove the source file after all batches were committed
   never changes the job's outcome: the cleanup step raises nothing and
   writes no snapshot, the job goes on to the dispatch and ends succeeded
   with its success result, the file still in place; a job that fails after
   its last batch fails by the dispatch's error, never by the removal's. *)
C21_RemovalErrorOnlyLogged ==
    \A t \in TaskIds :
        /\ (task[t].pc = "done" /\ fs[task[t].file_path] # 0)
           => /\ status[t].state = "SUCCESS"
              /\ status[t].meta = SuccessMeta(t)
        /\ (AllCommitted(t) /\ task[t].pc \in {"except", "raise", "failed"})
           => task[t].err = "kombu.OperationalError"

C21_CleanupNeverFailsJob ==
    /\ []C21_RemovalErrorOnlyLogged
    /\ [][\A t \in TaskIds :
            (task[t].pc = "cleanup" /\ task'[t] # task[t])
            => /\ task'[t] = [task[t] EXCEPT !.pc = "notify"]
               /\ task'[t].err = ""
               /\ status' = status
               /\ products' = products]_vars

\* The file of a job over two batches could not be removed; the job
\* succeeded and the file is still there.
C21_Witness ==
    /\ task[1].pc = "done"
    /\ status[1].state = "SUCCESS"
    /\ status[1].meta.total_processed = task[1].processed
    /\ Len(uploaded[1]) > chunk_size
    /\ fs["a.csv"] # 0
    /\ inode[fs["a.csv"]] = uploaded[1]

----------------------------------------------------------------------------
(* A running job goes on *)

\* One iteration of the loop of a started task.
Iterate(t) == ProcessChunk(t) \/ ChunkFails(t)

\* The steps of a started task outside the loop.
Finish(t) ==
    \/ EndOfFile(t)
    \/ Cleanup(t)
    \/ Notify(t)
    \/ Return(t)
    \/ Except(t)
    \/ Raise(t)

\* The steps of import_products_task once the worker has started it.
Run(t) == Iterate(t) \/ Finish(t)

\* One job, without its poller and its webhook task.
NextLive ==
    \E t \in {1} :
        \/ \E name \in FileNames, rows \in FilesUpTo(MaxRows) : Upload(t, name, rows)
        \/ Start(t)
        \/ Run(t)

\* WF_vars(Iterate(t)) written out: an iteration can be taken exactly when
\* the task is in the loop and the reader has a chunk (its transaction
\* commits or raises), so ENABLED <<Iterate(t)>>_vars is that condition.
IterateFair(t) ==
    \/ []<>(~(task[t].pc = "chunk" /\ HasChunk(t)))
    \/ []<><<Iterate(t)>>_vars

\* The worker runs the task's code to its end: every file read and storage
\* transaction returns, so a started job always takes its next step.
SpecLive ==
    /\ Init
    /\ [][NextLive]_vars
    /\ \A t \in TaskIds : WF_vars(Finish(t)) /\ IterateFair(t)

(* C22: every job that starts running eventually reaches exactly one of
   succeeded or failed; an error inside batch processing is the job's last
   action: no batch is read, merged or published after it, and the number of
   progress snapshots never exceeds the number of batches of the file. *)
C22_ErrorIsLastAction ==
    [][\A t \in TaskIds :
         task[t].pc \in {"except", "raise", "failed"}
         => /\ task'[t].pc \in {"except", "raise", "failed"}
            /\ task'[t].pos = task[t].pos
            /\ task'[t].chunk_num = task[t].chunk_num
            /\ task'[t].processed = task[t].processed
            /\ published'[t] = published[t]
            /\ products' = products
            /\ hook'[t] = hook[t]
            /\ status'[t].state \in {status[t].state, "FAILURE"}]_vars

C22_FinitelyManySnapshots ==
    \A t \in TaskIds :
        /\ Len(published[t]) <= CeilDiv(Len(uploaded[t]), chunk_size)
        /\ Ended(t) <=> status[t].state \in Terminal /\ task[t].pc # "raise"
        /\ task[t].pc = "done" <=> status[t].state = "SUCCESS"

C22_JobTerminates ==
    /\ \A t \in TaskIds :
          (status[t].state = "STARTED") ~> (Ended(t) /\ status[t].state \in Terminal)
    /\ C22_ErrorIsLastAction
    /\ []C22_FinitelyManySnapshots

\* The second of three batches failed: the job ended failed with one
\* snapshot published and the rest of the file unread.
C22_Witness ==
    /\ task[1].pc = "failed"
    /\ status[1].state = "FAILURE"
    /\ task[1].err \in StorageErrors
    /\ Len(uploaded[1]) = 2 * chunk_size + 1
    /\ task[1].pos = chunk_size
    /\ Len(published[1]) = 1

====
